---- MODULE Spec2Model ----
(***************************************************************************)
(* Image-Comparison: the three comparison engines of the repository and    *)
(* the operations around them.                                             *)
(*                                                                         *)
(*   "direct"     Testing/Automated_Testing/                               *)
(*                color_similarity_detection_technique.py  (ImageCompare)  *)
(*   "lab"        Image_Comparison_Script/                                 *)
(*                Color_Similarity_Detection_Technique.py  (ImageCompare)  *)
(*   "standalone" Image_Comparison_Script/Image_Compare.py                 *)
(*   main         Image_Comparison_Script/image_compare.py, the command    *)
(*                line that validates its arguments and drives "direct"    *)
(*                                                                         *)
(* An image is piecewise constant over a fixed partition of its pixels     *)
(* into regions (the fixtures of test_data_generator.py: a background and  *)
(* altered blocks).  Every numpy operation of the code is elementwise, so  *)
(* its result on such an image is the per-region result, and every count   *)
(* is the per-region count weighted by the region's area.                  *)
(***************************************************************************)
EXTENDS Integers, Sequences, FiniteSets, TLC

VARIABLES files, comparer, result, output, report, run

vars == <<files, comparer, result, output, report, run>>

----------------------------------------------------------------------------
(* Bounds and program constants                                            *)

\* Number of altered blocks a base-size fixture carries besides its background.
NumBlocks == 1

\* Pixels of one altered block: img_arr[20:30, 20:30] is 10 x 10.
BlockArea == 100

\* max_pixel_value: the largest 8-bit sample.
MaxSample == 255

\* The index printed by the standalone script: diff_arr[21,21].
DebugIndex == 21

BaseSize == <<100, 100>>
OtherSize == <<150, 150>>
Sizes == {BaseSize, OtherSize}

Modes == {"L", "RGB", "RGBA"}
Formats == {"PNG", "JPEG"}
Variants == {"direct", "lab", "standalone"}

\* Tolerance percents handed to the engines.  The constructor and the
\* standalone function validate nothing, so values outside [0,100] reach them.
Tolerances == {-5, 0, 20, 100, 120}

Channels(mode) ==
    CASE mode = "L" -> 1
      [] mode = "RGB" -> 3
      [] mode = "RGBA" -> 4

Palette(mode) ==
    CASE mode = "L" -> {<<0>>, <<51>>, <<255>>}
      [] mode = "RGB" -> {<<0, 255, 0>>, <<255, 0, 0>>, <<0, 255, 51>>, <<0, 255, 52>>}
      [] mode = "RGBA" -> {<<0, 0, 0, 255>>, <<255, 255, 255, 255>>}

\* Areas of the regions of an image of the given size, in pixels: the
\* base-size fixtures have NumBlocks altered blocks and a background, the
\* other size is uniform (create_image_with_different_size).
Areas(size) ==
    IF size = BaseSize
    THEN [i \in 1..(NumBlocks + 1) |->
            IF i <= NumBlocks THEN BlockArea
            ELSE size[1] * size[2] - NumBlocks * BlockArea]
    ELSE <<size[1] * size[2]>>

NumRegions(size) == Len(Areas(size))

\* The decoded image files the two paths may name.
ImageFiles ==
    UNION {{[size |-> sm[1], mode |-> sm[2], format |-> f, px |-> p] :
               f \in Formats, p \in [1..NumRegions(sm[1]) -> Palette(sm[2])]} :
           sm \in Sizes \X Modes}

\* What a path may name besides a decodable image: no file at all
\* (non_existing_image.jpg), a file that is no image and has no image
\* extension (invalid_image.pdf), an empty file with an image extension
\* (corrupted_image1.jpg).
FileKinds == {"missing", "invalid", "corrupt"}

BadFiles == {[kind |-> k] : k \in FileKinds}

Files == ImageFiles \cup BadFiles

IsImage(f) == "px" \in DOMAIN f

\* The --tolerance_value argument: a string that float() parses to `value`,
\* or one it rejects ('abc').
ToleranceArgs ==
    {[numeric |-> TRUE, value |-> t] : t \in Tolerances}
        \cup {[numeric |-> FALSE, value |-> 0]}

----------------------------------------------------------------------------
(* Helpers                                                                 *)

Abs(x) == IF x < 0 THEN -x ELSE x

Min(a, b) == IF a <= b THEN a ELSE b

RECURSIVE SumSeq(_)
SumSeq(s) == IF s = <<>> THEN 0 ELSE Head(s) + SumSeq(Tail(s))

\* Number of TRUE entries of a sequence of booleans.
CountTrue(bs) == Cardinality({k \in 1..Len(bs) : bs[k]})

NoComparer == [variant |-> "none", tolerance |-> 0, img1 |-> <<>>, img2 |-> <<>>]

NoMask == [shape |-> <<>>, data |-> <<>>]

NoResult ==
    [status |-> "none", error |-> "", mask |-> NoMask, field |-> <<>>,
     num |-> -1, total |-> -1, similar |-> FALSE, trace |-> <<>>]

NoOutput ==
    [dir |-> FALSE, status |-> "none", diff_img1 |-> <<>>, diff_img2 |-> <<>>,
     combined_diff |-> <<>>]

NoReport == [status |-> "none", total |-> -1, num |-> -1, percent100 |-> -1, tolerance |-> 0]

\* No constructor or entry point has been called yet.
NoRun ==
    [entry |-> "none", status |-> "none", error |-> "", path |-> 0,
     tolerance |-> [numeric |-> TRUE, value |-> 0], events |-> <<>>]

ErrorResult(msg, trace) == [NoResult EXCEPT !.status = "error", !.error = msg, !.trace = trace]

----------------------------------------------------------------------------
(* Pillow and numpy primitives used by all engines                         *)

\* np.array(image).shape: (h, w) for a single-band image, (h, w, c) otherwise.
ArrayShape(img) ==
    IF Channels(img.mode) = 1
    THEN <<img.size[2], img.size[1]>>
    ELSE <<img.size[2], img.size[1], Channels(img.mode)>>

\* Variant of ArraySize that counts pixels instead of samples.
ArraySizePixels(img) == img.size[1] * img.size[2]

\* np.array(image).size: the number of samples.
ArraySize(img) == img.size[1] * img.size[2] * Channels(img.mode)

\* The pixel an image shows over region r of the partition of `size`
\* (a uniform image shows its one colour everywhere).
PixelOver(img, r) == IF Len(img.px) = 1 THEN img.px[1] ELSE img.px[r]

\* ImageChops.difference needs equal modes ("images do not match" otherwise).
ChopsMatch(img1, img2) == img1.mode = img2.mode

\* ImageChops.difference(img1, img2): the per-band absolute difference, over
\* the common area of the two images.
ChopsDifference(img1, img2) ==
    LET size == <<Min(img1.size[1], img2.size[1]), Min(img1.size[2], img2.size[2])>>
    IN  [size |-> size, mode |-> img1.mode, format |-> "",
         px |-> [r \in 1..NumRegions(size) |->
                   [c \in 1..Channels(img1.mode) |->
                      Abs(PixelOver(img1, r)[c] - PixelOver(img2, r)[c])]]]

\* np.sum(mask): the number of true entries, each region weighted by its area.
MaskSum(mask, size) ==
    SumSeq([r \in 1..Len(mask.data) |-> Areas(size)[r] * CountTrue(mask.data[r])])

\* image.convert('RGB'): a gray value is replicated, an alpha band is dropped.
ConvertRGB(img) ==
    [img EXCEPT !.mode = "RGB",
                !.px = [r \in 1..Len(img.px) |->
                          IF img.mode = "L"
                          THEN <<img.px[r][1], img.px[r][1], img.px[r][1]>>
                          ELSE SubSeq(img.px[r], 1, 3)]]

----------------------------------------------------------------------------
(* The direct engine: color_similarity_detection_technique.py              *)

\* diff_array > tolerance_value with tolerance_value = (tolerance / 100) * 255.
\* For integer percents the float product and comparison agree with the
\* exact rational comparison d > tolerance * 255 / 100.
\* Variants of the comparison a slip would produce: ">=" for ">", the
\* comparison inverted, the tolerance taken as a raw sample distance.
ExceedsGeq(d, tolerance) == d * 100 >= tolerance * MaxSample
ExceedsInverted(d, tolerance) == d * 100 < tolerance * MaxSample
ExceedsRaw(d, tolerance) == d > tolerance
Exceeds(d, tolerance) == d * 100 > tolerance * MaxSample

\* validate_images without its size check.
ValidateImagesNoSize(img1, img2) ==
    IF img1.mode # img2.mode THEN "Image modes do not match"
    ELSE ""
\* validate_images: "" when the images are compatible, the error otherwise.
ValidateImages(img1, img2) ==
    IF img1.size # img2.size THEN "Images have different sizes."
    ELSE IF img1.mode # img2.mode THEN "Image modes do not match"
    ELSE ""

\* The mask of compare_images: np.any over the channel axis for "RGB", the
\* elementwise comparison of the whole difference array for every other mode.
DirectMask(diff, tolerance) ==
    IF diff.mode = "RGB"
    THEN [shape |-> <<diff.size[2], diff.size[1]>>,
          data |-> [r \in 1..Len(diff.px) |->
                      <<\E c \in 1..3 : Exceeds(diff.px[r][c], tolerance)>>]]
    ELSE [shape |-> ArrayShape(diff),
          data |-> [r \in 1..Len(diff.px) |->
                      [c \in 1..Channels(diff.mode) |->
                         Exceeds(diff.px[r][c], tolerance)]]]

\* compare_images: (mask, num_differences, total_pixels), or the error raised.
CompareImages(c) ==
    LET v == ValidateImages(c.img1, c.img2)
    IN  IF v # "" THEN ErrorResult(v, <<"validate_images">>)
        ELSE IF ~ChopsMatch(c.img1, c.img2)
        THEN ErrorResult("images do not match", <<"validate_images", "difference">>)
        ELSE LET diff == ChopsDifference(c.img1, c.img2)
                 mask == DirectMask(diff, c.tolerance)
             IN  [NoResult EXCEPT
                    !.status = "ok",
                    !.mask = mask,
                    !.num = MaskSum(mask, diff.size),
                    !.total = c.img1.size[1] * c.img1.size[2],
                    !.trace = <<"validate_images", "difference", "mask", "count">>]

\* A difference image that was not blacked out first.
MaskedKeepAll(px, data) == px

\* The bands of a difference image: zero where the mask entry of the sample
\* is false, the image's own sample where it is true.
Masked(px, data) ==
    [r \in 1..Len(px) |->
       [c \in 1..Len(px[r]) |->
          IF data[r][IF Len(data[r]) = 1 THEN 1 ELSE c] THEN px[r][c] ELSE 0]]

\* a[mask] with a boolean mask: the mask's shape must be a prefix of the
\* array's shape (IndexError otherwise).
MaskFits(mask, shape) ==
    /\ Len(mask.shape) <= Len(shape)
    /\ \A i \in 1..Len(mask.shape) : mask.shape[i] = shape[i]

\* np.add on two uint8 arrays: the sum modulo 256.
AddUint8(a, b) == (a + b) % 256

\* save_difference_images(img1, img2, mask): the three files written, or the
\* IndexError of the masked assignment (after the directory was created).
SaveDifferenceImages(img1, img2, mask) ==
    LET img1_rgb == ConvertRGB(img1)
        img2_rgb == ConvertRGB(img2)
    IN  IF ~(MaskFits(mask, ArrayShape(img1_rgb)) /\ MaskFits(mask, ArrayShape(img2_rgb)))
        THEN [NoOutput EXCEPT !.dir = TRUE, !.status = "error"]
        ELSE LET img1_diff == Masked(img1_rgb.px, mask.data)
                 img2_diff == Masked(img2_rgb.px, mask.data)
             IN  [dir |-> TRUE, status |-> "written",
                  diff_img1 |-> img1_diff,
                  diff_img2 |-> img2_diff,
                  combined_diff |->
                      [r \in 1..Len(img1_diff) |->
                         [c \in 1..3 |-> AddUint8(img1_diff[r][c], img2_diff[r][c])]]]

\* The report's percentage in hundredths: (num / total) * 100 to two decimals.
Percent100(num, total) == (2 * num * 10000 + total) \div (2 * total)

\* generate_report(num_differences, total_pixels, tolerance): the report
\* written to output/comparison_report.txt; open() fails when the directory
\* does not exist.
GenerateReport(num, total, tolerance, dirExists) ==
    IF ~dirExists THEN [NoReport EXCEPT !.status = "error"]
    ELSE [status |-> "written", total |-> total, num |-> num,
          percent100 |-> Percent100(num, total), tolerance |-> tolerance]

----------------------------------------------------------------------------
(* The Lab engine: Color_Similarity_Detection_Technique.py                 *)

\* validate_images of the Lab engine: size, then file format.
ValidateImagesLab(img1, img2) ==
    IF img1.size # img2.size THEN "Images have different sizes."
    ELSE IF img1.format # img2.format THEN "Image formats do not match"
    ELSE ""

\* convert_to_lab on the palette: color.rgb2lab(np.array(image) / 255.0),
\* (L, a, b) in hundredths.
LabOf(pixel) ==
    CASE pixel = <<0, 255, 0>> -> <<8774, -8618, 8318>>
      [] pixel = <<255, 0, 0>> -> <<5324, 8009, 6720>>
      [] pixel = <<0, 255, 51>> -> <<8785, -8468, 7561>>
      [] pixel = <<0, 255, 52>> -> <<8785, -8463, 7535>>

\* compute_lab_difference for one pixel: the squared Euclidean distance, in
\* hundredths squared.
LabDiffSq(p1, p2) ==
    LET a == LabOf(p1)
        b == LabOf(p2)
    IN  (a[1] - b[1]) * (a[1] - b[1]) + (a[2] - b[2]) * (a[2] - b[2])
          + (a[3] - b[3]) * (a[3] - b[3])

\* lab_diff > tolerance, on the squared distance (lab_diff is never negative).
ExceedsLab(dsq, tolerance) ==
    tolerance < 0 \/ dsq > (100 * tolerance) * (100 * tolerance)

LabMask(lab_diff, tolerance, size) ==
    [shape |-> <<size[2], size[1]>>,
     data |-> [r \in 1..Len(lab_diff) |-> <<ExceedsLab(lab_diff[r], tolerance)>>]]

\* compare_images of the Lab engine: (lab_diff, num_differences, total_pixels).
\* rgb2lab raises on an array whose last axis is not of length 3.
CompareImagesLab(c) ==
    LET v == ValidateImagesLab(c.img1, c.img2)
    IN  IF v # "" THEN ErrorResult(v, <<"validate_images">>)
        ELSE IF c.img1.mode # "RGB" \/ c.img2.mode # "RGB"
        THEN ErrorResult("rgb2lab: input is not an RGB array",
                         <<"validate_images", "convert_to_lab">>)
        ELSE LET lab_diff == [r \in 1..Len(c.img1.px) |->
                                 LabDiffSq(c.img1.px[r], c.img2.px[r])]
                 mask == LabMask(lab_diff, c.tolerance, c.img1.size)
             IN  [NoResult EXCEPT
                    !.status = "ok",
                    !.field = lab_diff,
                    !.mask = mask,
                    !.num = MaskSum(mask, c.img1.size),
                    !.total = ArraySize(c.img1),
                    !.trace = <<"validate_images", "convert_to_lab", "difference",
                                "mask", "count">>]

\* (img1_rgb + img2_rgb) // 2 on two uint8 arrays: the sum wraps before halving.
HalfSumUint8(a, b) == ((a + b) % 256) \div 2

\* save_difference_images(img1, img2, lab_diff, tolerance) of the Lab engine.
SaveDifferenceImagesLab(img1, img2, lab_diff, tolerance) ==
    LET mask == LabMask(lab_diff, tolerance, img1.size)
    IN  [dir |-> TRUE, status |-> "written",
         diff_img1 |-> Masked(img1.px, mask.data),
         diff_img2 |-> Masked(img2.px, mask.data),
         combined_diff |->
             [r \in 1..Len(img1.px) |->
                [c \in 1..Len(img1.px[r]) |->
                   IF mask.data[r][1]
                   THEN HalfSumUint8(img1.px[r][c], img2.px[r][c]) ELSE 0]]]

----------------------------------------------------------------------------
(* The standalone script: Image_Compare.py                                 *)

\* img1_arr - img2_arr on uint8 arrays wraps modulo 256; np.abs of an
\* unsigned array changes nothing.
AbsSubUint8(a, b) == (a - b) % 256

\* saveDiffImages(img1_arr, img2_arr, tolerance_value), per sample.
SaveDiffImages(img1, img2, tolerance) ==
    [dir |-> TRUE, status |-> "written",
     diff_img1 |->
         [r \in 1..Len(img1.px) |-> [c \in 1..Len(img1.px[r]) |->
            IF Exceeds(AbsSubUint8(img1.px[r][c], img2.px[r][c]), tolerance)
            THEN img1.px[r][c] ELSE 0]],
     diff_img2 |->
         [r \in 1..Len(img1.px) |-> [c \in 1..Len(img1.px[r]) |->
            IF Exceeds(AbsSubUint8(img2.px[r][c], img1.px[r][c]), tolerance)
            THEN img2.px[r][c] ELSE 0]],
     combined_diff |->
         [r \in 1..Len(img1.px) |-> [c \in 1..Len(img1.px[r]) |->
            IF Exceeds(AbsSubUint8(img1.px[r][c], img2.px[r][c]), tolerance)
            THEN img1.px[r][c] ELSE img2.px[r][c]]]]

\* compareImagesToleranceBased(image1, image2, tolerance_percentage):
\* (num_differences == 0, num_differences, np.array(img1).size), or the error.
CompareImagesToleranceBased(c) ==
    IF c.img1.size # c.img2.size
    THEN ErrorResult("Images have different sizes.", <<"size">>)
    ELSE IF c.img1.format # c.img2.format
    THEN ErrorResult("Image formats do not match", <<"size", "compareImagesFormat">>)
    ELSE IF ~ChopsMatch(c.img1, c.img2)
    THEN ErrorResult("images do not match", <<"size", "compareImagesFormat", "difference">>)
    ELSE IF c.img1.size[1] <= DebugIndex \/ c.img1.size[2] <= DebugIndex
    THEN ErrorResult("IndexError", <<"size", "compareImagesFormat", "difference", "print">>)
    ELSE LET diff == ChopsDifference(c.img1, c.img2)
             mask == [shape |-> ArrayShape(diff),
                      data |-> [r \in 1..Len(diff.px) |->
                                  [k \in 1..Channels(diff.mode) |->
                                     Exceeds(diff.px[r][k], c.tolerance)]]]
             num == MaskSum(mask, diff.size)
         IN  [NoResult EXCEPT
                !.status = "ok",
                !.mask = mask,
                !.num = num,
                !.total = ArraySize(c.img1),
                !.similar = (num = 0),
                !.trace = <<"size", "compareImagesFormat", "difference", "print",
                            "count", "saveDiffImages">>]

----------------------------------------------------------------------------
(* Loading, and the command-line entry point image_compare.py              *)

\* Image.open(path): the exception it raises, "" when it returns an image.
OpenImage(f) ==
    IF IsImage(f) THEN ""
    ELSE IF f.kind = "missing" THEN "FileNotFoundError"
    ELSE "UnidentifiedImageError"

\* Variant of LoadImage without the try/except: Pillow's exception escapes.
LoadImageUnwrapped(f) == OpenImage(f)

\* ImageCompare.load_image(path): every exception of Image.open becomes the
\* ValueError "Error loading image '<path>': ...".
LoadImage(f) == IF OpenImage(f) # "" THEN "Error loading image" ELSE ""

\* check_image_file_format_validity(file_path): the ArgumentTypeError it
\* raises, "" when it returns the path.
CheckImageFileFormatValidity(f) ==
    IF ~IsImage(f) /\ f.kind = "missing" THEN "File does not exist."
    ELSE IF ~IsImage(f) /\ f.kind = "invalid" THEN "File is not a valid image format."
    ELSE IF OpenImage(f) # "" THEN "Could not open image"
    ELSE ""

\* check_image_file_format_validity reaches its Image.open call.
CheckOpens(f) == IsImage(f) \/ f.kind = "corrupt"

\* Variant of the tolerance check with exclusive bounds.
CheckToleranceExclusive(arg) ==
    IF ~arg.numeric THEN "Tolerance value is not a valid number."
    ELSE IF ~(0 < arg.value /\ arg.value < 100)
    THEN "Tolerance value must be between 0 and 100."
    ELSE ""

\* Variant of the tolerance check without the range test.
CheckToleranceNoRange(arg) ==
    IF ~arg.numeric THEN "Tolerance value is not a valid number." ELSE ""

\* check_tolerance_value_validity(value): the ArgumentTypeError it raises,
\* "" when it returns the float.
CheckToleranceValueValidity(arg) ==
    IF ~arg.numeric THEN "Tolerance value is not a valid number."
    ELSE IF ~(0 <= arg.value /\ arg.value <= 100)
    THEN "Tolerance value must be between 0 and 100."
    ELSE ""

\* Variant of AfterSave in which save_difference_images converts the
\* comparer's images in place.
AfterSaveConverted(img1, img2) == <<ConvertRGB(img1), ConvertRGB(img2)>>

\* The images the caller holds after save_difference_images(img1, img2, mask):
\* convert('RGB') returns new images bound to the local names and np.array
\* copies, so the arguments are as they were.
AfterSave(img1, img2) == <<img1, img2>>

\* Variant of FormatsMatch that never finds a mismatch.
FormatsMatchAlways(f1, f2) == TRUE

\* img1_format != img2_format of main, negated.
FormatsMatch(f1, f2) == f1.format = f2.format

\* The outcome of image_compare.main(args): the final values of the run
\* record, the comparer, the comparison result, the output directory and
\* the report.  `events` lists, in order, the Image.open calls and the
\* steps main reached.
MainRun(fs, arg) ==
    LET e1 == CheckImageFileFormatValidity(fs[1])
        e2 == CheckImageFileFormatValidity(fs[2])
        ev1 == IF CheckOpens(fs[1]) THEN <<"open img1">> ELSE <<>>
        ev2 == ev1 \o (IF CheckOpens(fs[2]) THEN <<"open img2">> ELSE <<>>)
        ev3 == ev2 \o <<"open img1", "open img2">>
        ev4 == ev3 \o <<"check_tolerance_value_validity">>
        ev5 == ev4 \o <<"ImageCompare", "open img1", "open img2">>
        ev6 == ev5 \o <<"compare_images">>
        ev7 == ev6 \o <<"save_difference_images">>
        ev8 == ev7 \o <<"generate_report">>
        et == CheckToleranceValueValidity(arg)
        c == [variant |-> "direct", tolerance |-> arg.value,
              img1 |-> fs[1], img2 |-> fs[2]]
        r == CompareImages(c)
        o == SaveDifferenceImages(c.img1, c.img2, r.mask)
        Run(status, msg, path, ev) ==
            [entry |-> "main", status |-> status, error |-> msg, path |-> path,
             tolerance |-> arg, events |-> ev]
        Raised(msg, path, ev) ==
            [run |-> Run("error", msg, path, ev), comparer |-> NoComparer,
             result |-> NoResult, output |-> NoOutput, report |-> NoReport]
    IN  IF e1 # "" THEN Raised(e1, 1, ev1)
        ELSE IF e2 # "" THEN Raised(e2, 2, ev2)
        ELSE IF ~FormatsMatch(fs[1], fs[2])
        THEN Raised("Image formats do not match", 0, ev3)
        ELSE IF et # "" THEN Raised(et, 0, ev4)
        ELSE IF LoadImage(fs[1]) # "" THEN Raised(LoadImage(fs[1]), 1, ev5)
        ELSE IF LoadImage(fs[2]) # "" THEN Raised(LoadImage(fs[2]), 2, ev5)
        ELSE IF r.status # "ok"
        THEN [run |-> Run("error", r.error, 0, ev6), comparer |-> c,
              result |-> r, output |-> NoOutput, report |-> NoReport]
        ELSE IF o.status # "written"
        THEN [run |-> Run("error", "IndexError", 0, ev7), comparer |-> c,
              result |-> r, output |-> o, report |-> NoReport]
        ELSE [run |-> Run("done", "", 0, ev8), comparer |-> c, result |-> r,
              output |-> o,
              report |-> GenerateReport(r.num, r.total, arg.value, o.dir)]

----------------------------------------------------------------------------
(* The state machine                                                       *)

Init ==
    /\ files \in Files \X Files
    /\ comparer = NoComparer
    /\ result = NoResult
    /\ output = NoOutput
    /\ report = NoReport
    /\ run = NoRun

\* ImageCompare.__init__ of either class: both paths are loaded, the first
\* failure raises and no object exists.
Construct(variant, t) ==
    LET e1 == LoadImage(files[1])
        e2 == LoadImage(files[2])
        called == [NoRun EXCEPT !.entry = variant, !.tolerance.value = t,
                                !.events = <<"ImageCompare">>]
    IN  /\ comparer = NoComparer
        /\ run = NoRun
        /\ IF e1 # ""
           THEN /\ run' = [called EXCEPT !.status = "error", !.error = e1, !.path = 1]
                /\ comparer' = comparer
           ELSE IF e2 # ""
           THEN /\ run' = [called EXCEPT !.status = "error", !.error = e2, !.path = 2]
                /\ comparer' = comparer
           ELSE /\ run' = [called EXCEPT !.status = "done"]
                /\ comparer' = [variant |-> variant, tolerance |-> t,
                                img1 |-> files[1], img2 |-> files[2]]
        /\ UNCHANGED <<files, result, output, report>>

\* ImageCompare(img1_path, img2_path, tolerance) of the direct engine.
ConstructDirect(t) == Construct("direct", t)

\* ImageCompare(img1_path, img2_path, tolerance) of the Lab engine.
ConstructLab(t) == Construct("lab", t)

\* comparer.compare_images() of the direct engine.
CompareDirect ==
    /\ comparer.variant = "direct"
    /\ result' = CompareImages(comparer)
    /\ UNCHANGED <<files, comparer, output, report, run>>

\* comparer.compare_images() of the Lab engine.
CompareLab ==
    /\ comparer.variant = "lab"
    /\ result' = CompareImagesLab(comparer)
    /\ UNCHANGED <<files, comparer, output, report, run>>

\* comparer.save_difference_images(comparer.img1, comparer.img2, mask).
SaveDirect ==
    /\ comparer.variant = "direct"
    /\ result.status = "ok"
    /\ output' = SaveDifferenceImages(comparer.img1, comparer.img2, result.mask)
    /\ comparer' = [comparer EXCEPT
                       !.img1 = AfterSave(comparer.img1, comparer.img2)[1],
                       !.img2 = AfterSave(comparer.img1, comparer.img2)[2]]
    /\ UNCHANGED <<files, result, report, run>>

\* comparer.save_difference_images(img1, img2, lab_diff, tolerance).
SaveLab ==
    /\ comparer.variant = "lab"
    /\ result.status = "ok"
    /\ output' = SaveDifferenceImagesLab(comparer.img1, comparer.img2,
                                         result.field, comparer.tolerance)
    /\ UNCHANGED <<files, comparer, result, report, run>>

\* generate_report / generateStatReport with the values compare returned.
Report ==
    /\ result.status = "ok"
    /\ report' = GenerateReport(result.num, result.total, comparer.tolerance, output.dir)
    /\ UNCHANGED <<files, comparer, result, output, run>>

\* compareImagesToleranceBased(img1, img2, tolerance) of the standalone
\* script: it opens, compares and saves the difference images in one call.
\* Image.open is not guarded there, so its exception ends the call.
RunStandalone(t) ==
    LET called == [NoRun EXCEPT !.entry = "standalone", !.tolerance.value = t,
                                !.events = <<"open img1">>]
        e1 == OpenImage(files[1])
        e2 == OpenImage(files[2])
    IN  /\ comparer = NoComparer
        /\ run = NoRun
        /\ IF e1 # ""
           THEN /\ run' = [called EXCEPT !.status = "error", !.error = e1, !.path = 1]
                /\ UNCHANGED <<comparer, result, output>>
           ELSE IF e2 # ""
           THEN /\ run' = [called EXCEPT !.status = "error", !.error = e2, !.path = 2,
                                         !.events = <<"open img1", "open img2">>]
                /\ UNCHANGED <<comparer, result, output>>
           ELSE LET c == [variant |-> "standalone", tolerance |-> t,
                          img1 |-> files[1], img2 |-> files[2]]
                    r == CompareImagesToleranceBased(c)
                IN  /\ run' = [called EXCEPT
                                  !.status = IF r.status = "ok" THEN "done" ELSE "error",
                                  !.error = r.error,
                                  !.events = <<"open img1", "open img2">>]
                    /\ comparer' = c
                    /\ result' = r
                    /\ output' = IF r.status = "ok"
                                 THEN SaveDiffImages(c.img1, c.img2, t)
                                 ELSE output
        /\ UNCHANGED <<files, report>>

\* image_compare.main(['--img1', p1, '--img2', p2, '--tolerance_value', arg]).
Main(arg) ==
    /\ comparer = NoComparer
    /\ run = NoRun
    /\ LET m == MainRun(files, arg)
       IN  /\ run' = m.run
           /\ comparer' = m.comparer
           /\ result' = m.result
           /\ output' = m.output
           /\ report' = m.report
    /\ UNCHANGED files

Next ==
    \/ \E t \in Tolerances : ConstructDirect(t)
    \/ \E t \in Tolerances : ConstructLab(t)
    \/ \E t \in Tolerances : RunStandalone(t)
    \/ \E arg \in ToleranceArgs : Main(arg)
    \/ CompareDirect
    \/ CompareLab
    \/ SaveDirect
    \/ SaveLab
    \/ Report

Spec == Init /\ [][Next]_vars

----------------------------------------------------------------------------
(* Shared vocabulary of the properties                                     *)

Compared == result.status # "none"

Ok == result.status = "ok"

InRange(t) == 0 <= t /\ t <= 100

\* The absolute difference of the two loaded grids at region r, channel c.
ChannelDiff(r, c) == Abs(comparer.img1.px[r][c] - comparer.img2.px[r][c])

\* Some channel of the pixel differs by more than tolerance/100 * 255.
AnyChannelExceeds(r, t) ==
    \E c \in 1..Channels(comparer.img1.mode) : ChannelDiff(r, c) * 100 > t * MaxSample

\* The mask holds one boolean per pixel.
MaskIsPerPixel ==
    /\ result.mask.shape = <<comparer.img1.size[2], comparer.img1.size[1]>>
    /\ \A r \in 1..Len(result.mask.data) : Len(result.mask.data[r]) = 1

\* Region r (its pixels) is marked differing by the mask.
PixelMasked(r) == \E k \in 1..Len(result.mask.data[r]) : result.mask.data[r][k]

SameGrids ==
    /\ comparer.img1.size = comparer.img2.size
    /\ comparer.img1.mode = comparer.img2.mode
    /\ comparer.img1.px = comparer.img2.px

----------------------------------------------------------------------------
(* C1: in the direct engine, for tolerances in [0,100], the mask holds one  *)
(* boolean per pixel, true exactly when some channel of the pixel differs  *)
(* by strictly more than tolerance/100*255, and differingCount is the      *)
(* number of true mask entries.                                            *)
C1_MaskAnyChannelStrict ==
    (Ok /\ comparer.variant = "direct" /\ InRange(comparer.tolerance)) =>
        /\ MaskIsPerPixel
        /\ \A r \in 1..Len(result.mask.data) :
              result.mask.data[r] = <<AnyChannelExceeds(r, comparer.tolerance)>>
        /\ result.num = MaskSum(result.mask, comparer.img1.size)

(* C2: every result of compare_images, in either ImageCompare class and     *)
(* for every channel layout, has 0 <= differingCount <= totalPixelCount.   *)
C2_Totality ==
    (Ok /\ comparer.variant \in {"direct", "lab"} /\ InRange(comparer.tolerance)) =>
        (0 <= result.num /\ result.num <= result.total)

(* C3: comparing an image with an identical copy yields differingCount 0   *)
(* for every tolerance >= 0.                                               *)
C3_Identity ==
    (Ok /\ SameGrids /\ comparer.tolerance >= 0) => result.num = 0

C3_Witness ==
    /\ Ok /\ SameGrids /\ comparer.variant = "direct"
    /\ comparer.img1.mode = "RGB" /\ comparer.tolerance = 0
    /\ result.num = 0

(* C4: in the direct engine differingCount does not increase with the      *)
(* tolerance: the count returned at the comparer's tolerance t1 is at      *)
(* least the count compare_images gives the same images at any t2 >= t1.   *)
C4_Monotonicity ==
    (Ok /\ comparer.variant = "direct") =>
        \A t2 \in Tolerances :
            comparer.tolerance <= t2 =>
                CompareImages([comparer EXCEPT !.tolerance = t2]).num <= result.num

C4_Witness ==
    /\ Ok /\ comparer.variant = "direct" /\ comparer.tolerance = 0
    /\ result.num > CompareImages([comparer EXCEPT !.tolerance = 20]).num
    /\ CompareImages([comparer EXCEPT !.tolerance = 20]).num
         > CompareImages([comparer EXCEPT !.tolerance = 100]).num

(* C5, as claimed: tolerance 100 yields differingCount 0 in every engine.  *)
C5_Tolerance100AllEngines ==
    (Ok /\ comparer.tolerance = 100) => result.num = 0

(* C5, amended: under the direct channel-space metric (the direct engine   *)
(* and the standalone script) tolerance 100 yields differingCount 0 for    *)
(* every pair of pixel values.                                             *)
C5_Tolerance100Direct ==
    (Ok /\ comparer.variant \in {"direct", "standalone"} /\ comparer.tolerance = 100) =>
        result.num = 0

C5_Witness ==
    /\ Ok /\ comparer.variant = "direct" /\ comparer.tolerance = 100
    /\ \A r \in 1..Len(comparer.img1.px) : \E c \in 1..Channels(comparer.img1.mode) :
          ChannelDiff(r, c) = MaxSample
    /\ result.num = 0

(* C6: at tolerance 0, two images that differ maximally at every pixel     *)
(* (all-green against all-red) give differingCount = totalPixelCount.      *)
C6_ExtremeDifference ==
    (/\ Ok /\ comparer.variant \in {"direct", "lab"} /\ comparer.tolerance = 0
     /\ \A r \in 1..Len(comparer.img1.px) : \E c \in 1..Channels(comparer.img1.mode) :
           ChannelDiff(r, c) = MaxSample)
    => result.num = result.total

(* C7: when the two images differ in width or height, the comparison ends  *)
(* with the size-mismatch error after the size check alone: no difference, *)
(* mask or count was computed and nothing is returned.                     *)
C7_ShapeGate ==
    (Compared /\ comparer.img1.size # comparer.img2.size) =>
        /\ result.status = "error"
        /\ result.error = "Images have different sizes."
        /\ Len(result.trace) = 1
        /\ result.mask = NoMask /\ result.field = <<>>
        /\ result.num = -1 /\ result.total = -1

C7_Witness ==
    /\ comparer.variant = "direct"
    /\ comparer.img1.size = BaseSize /\ comparer.img2.size = OtherSize
    /\ result.error = "Images have different sizes."
    /\ result.trace = <<"validate_images">>

(* C8: an RGB image against a grayscale image of the same dimensions ends  *)
(* with the mode-mismatch error in both ImageCompare engines.              *)
C8_ModeGate ==
    (/\ Compared /\ comparer.variant \in {"direct", "lab"}
     /\ comparer.img1.size = comparer.img2.size
     /\ {comparer.img1.mode, comparer.img2.mode} = {"RGB", "L"})
    => (result.status = "error" /\ result.error = "Image modes do not match")

(* C9: in the combined image every sample of a masked pixel is the sum or  *)
(* the midpoint of the two grids' samples, clipped to 0..255, and every    *)
(* unmasked pixel is zero.                                                 *)
C9_CombinedClipped ==
    (Ok /\ output.status = "written") =>
        \A r \in 1..Len(output.combined_diff) :
            \A c \in 1..Len(output.combined_diff[r]) :
                LET a == IF comparer.variant = "direct"
                         THEN ConvertRGB(comparer.img1).px[r][c]
                         ELSE comparer.img1.px[r][c]
                    b == IF comparer.variant = "direct"
                         THEN ConvertRGB(comparer.img2).px[r][c]
                         ELSE comparer.img2.px[r][c]
                IN  IF PixelMasked(r)
                    THEN output.combined_diff[r][c] \in {Min(a + b, MaxSample), (a + b) \div 2}
                    ELSE output.combined_diff[r][c] = 0

\* The value of the source grid recovered from a pixel of an isolate image.
Recover(mode, p) == IF mode = "L" THEN <<p[1]>> ELSE p

(* C10: the isolate images of the direct engine keep the (RGB-coerced)     *)
(* pixel of their grid wherever the mask is true and are black elsewhere,  *)
(* so the grids' original values at masked pixels are recoverable.         *)
C10_IsolateRoundTrip ==
    (Ok /\ comparer.variant = "direct" /\ output.status = "written") =>
        \A r \in 1..Len(comparer.img1.px) :
            IF PixelMasked(r)
            THEN /\ output.diff_img1[r] = ConvertRGB(comparer.img1).px[r]
                 /\ output.diff_img2[r] = ConvertRGB(comparer.img2).px[r]
                 /\ Recover(comparer.img1.mode, output.diff_img1[r]) = comparer.img1.px[r]
                 /\ Recover(comparer.img2.mode, output.diff_img2[r]) = comparer.img2.px[r]
            ELSE /\ output.diff_img1[r] = <<0, 0, 0>>
                 /\ output.diff_img2[r] = <<0, 0, 0>>

C10_Witness ==
    /\ Ok /\ comparer.variant = "direct" /\ output.status = "written"
    /\ \E r \in 1..Len(comparer.img1.px) :
          PixelMasked(r) /\ output.diff_img1[r] # output.diff_img2[r]
    /\ \E r \in 1..Len(comparer.img1.px) :
          ~PixelMasked(r) /\ comparer.img1.px[r] # <<0, 0, 0>>

DifferingPositions ==
    SumSeq([r \in 1..Len(comparer.img1.px) |->
               IF comparer.img1.px[r] # comparer.img2.px[r]
               THEN Areas(comparer.img1.size)[r] ELSE 0])

(* C12: at tolerance 0 the direct engine's differingCount is the number of  *)
(* pixel positions at which the grids differ in at least one channel, and  *)
(* the reported percentage is differingCount / totalPixelCount * 100 (to   *)
(* the two decimals the report prints).                                    *)
C12_CountAtZero ==
    (Ok /\ comparer.variant = "direct" /\ comparer.tolerance = 0) =>
        /\ result.num = DifferingPositions
        /\ report.status = "written" =>
              /\ report.num = result.num /\ report.total = result.total
              /\ 2 * Abs(report.percent100 * result.total - result.num * 10000)
                    <= result.total

----------------------------------------------------------------------------
(* Vocabulary of the properties about the entry points                     *)

\* The tolerance argument is not a number in [0,100].
InvalidTolerance(arg) == ~arg.numeric \/ ~InRange(arg.value)

ToleranceErrors ==
    {"Tolerance value is not a valid number.",
     "Tolerance value must be between 0 and 100."}

FileErrors ==
    {"File does not exist.", "File is not a valid image format.", "Could not open image"}

\* The run opened an image file.
OpenedAnImage == \E k \in 1..Len(run.events) : run.events[k] \in {"open img1", "open img2"}

\* The run reached the named step.
Reached(step) == \E k \in 1..Len(run.events) : run.events[k] = step

\* Nothing was compared and nothing was written.
NothingProduced ==
    /\ result.status # "ok" /\ result.mask = NoMask /\ result.num = -1
    /\ output = NoOutput
    /\ report = NoReport

(* C13: every run of image_compare.main with an invalid tolerance ends in   *)
(* the tolerance error, raised before either image file is opened.         *)
C13_ToleranceBeforeIO ==
    (run.entry = "main" /\ InvalidTolerance(run.tolerance)) =>
        /\ run.status = "error"
        /\ run.error \in ToleranceErrors
        /\ ~OpenedAnImage

BothImages == IsImage(files[1]) /\ IsImage(files[2])

\* Some check of image_compare.main or of the direct engine it drives must
\* fail on the run's inputs.
MainCheckFails ==
    \/ ~BothImages
    \/ files[1].format # files[2].format
    \/ InvalidTolerance(run.tolerance)
    \/ files[1].size # files[2].size
    \/ files[1].mode # files[2].mode

\* The error of a run of main names a check that did fail on its inputs.
MainErrorIdentifiesCheck ==
    /\ run.error = "File does not exist."
          => (~IsImage(files[run.path]) /\ files[run.path].kind = "missing")
    /\ run.error = "File is not a valid image format."
          => (~IsImage(files[run.path]) /\ files[run.path].kind = "invalid")
    /\ run.error = "Could not open image"
          => (~IsImage(files[run.path]) /\ files[run.path].kind = "corrupt")
    /\ run.error = "Image formats do not match"
          => (BothImages /\ files[1].format # files[2].format)
    /\ run.error = "Tolerance value is not a valid number." => ~run.tolerance.numeric
    /\ run.error = "Tolerance value must be between 0 and 100."
          => (run.tolerance.numeric /\ ~InRange(run.tolerance.value))
    /\ run.error = "Images have different sizes."
          => (BothImages /\ files[1].size # files[2].size)
    /\ run.error = "Image modes do not match"
          => (BothImages /\ files[1].mode # files[2].mode)

\* The checks of the three compare operations, by engine.
CompareCheckFails ==
    \/ comparer.img1.size # comparer.img2.size
    \/ comparer.variant = "direct" /\ comparer.img1.mode # comparer.img2.mode
    \/ comparer.variant \in {"lab", "standalone"}
          /\ comparer.img1.format # comparer.img2.format

CompareCheckErrors ==
    {"Images have different sizes.", "Image modes do not match",
     "Image formats do not match"}

(* C14: whenever loading, the size check, the mode or format check or the  *)
(* tolerance validation fails, the run ends in the error of a check that   *)
(* failed; no result is returned, and no difference image and no report is *)
(* written.                                                                *)
C14_ErrorPropagation ==
    /\ (run.entry = "main" /\ MainCheckFails) =>
          /\ run.status = "error"
          /\ run.error \in FileErrors \cup ToleranceErrors \cup CompareCheckErrors
          /\ MainErrorIdentifiesCheck
          /\ NothingProduced
    /\ (run.entry \in {"direct", "lab"} /\ ~BothImages) =>
          /\ run.status = "error" /\ run.error = "Error loading image"
          /\ comparer = NoComparer
          /\ NothingProduced
    /\ (run.entry = "standalone" /\ ~BothImages) =>
          /\ run.status = "error" /\ run.error # ""
          /\ NothingProduced
    /\ (Compared /\ CompareCheckFails) =>
          /\ result.status = "error"
          /\ result.error \in CompareCheckErrors
          /\ result.error = "Images have different sizes."
                => comparer.img1.size # comparer.img2.size
          /\ result.error = "Image modes do not match"
                => comparer.img1.mode # comparer.img2.mode
          /\ result.error = "Image formats do not match"
                => comparer.img1.format # comparer.img2.format
          /\ NothingProduced
          /\ ~result.similar

C14_Witness ==
    /\ run.entry = "main" /\ BothImages
    /\ files[1].format = files[2].format /\ ~InvalidTolerance(run.tolerance)
    /\ files[1].size # files[2].size
    /\ run.status = "error" /\ run.error = "Images have different sizes."
    /\ Reached("compare_images") /\ ~Reached("save_difference_images")
    /\ NothingProduced

\* The messages of the four rejections of the command-line validation.
RejectionMessages ==
    <<CheckImageFileFormatValidity([kind |-> "missing"]),
      CheckImageFileFormatValidity([kind |-> "invalid"]),
      CheckToleranceValueValidity([numeric |-> TRUE, value |-> 120]),
      CheckToleranceValueValidity([numeric |-> FALSE, value |-> 0])>>

(* C15: the command-line validation of image_compare.main rejects a         *)
(* missing file, a file without an image extension, a tolerance outside    *)
(* [0,100] and a non-numeric tolerance, each with a message of its own,    *)
(* and accepts every tolerance in [0,100], 0 and 100 included.             *)
C15_CliValidation ==
    /\ \A i, j \in 1..4 :
          /\ RejectionMessages[i] # ""
          /\ i # j => RejectionMessages[i] # RejectionMessages[j]
    /\ run.entry = "main" =>
          /\ \A k \in 1..2 :
                (/\ ~IsImage(files[k]) /\ files[k].kind \in {"missing", "invalid"}
                 /\ k = 2 => IsImage(files[1]))
                => /\ run.status = "error" /\ run.path = k
                   /\ run.error = (IF files[k].kind = "missing"
                                    THEN "File does not exist."
                                    ELSE "File is not a valid image format.")
          /\ (BothImages /\ files[1].format = files[2].format) =>
                /\ ~run.tolerance.numeric
                      => (/\ run.status = "error"
                          /\ run.error = "Tolerance value is not a valid number.")
                /\ (run.tolerance.numeric /\ ~InRange(run.tolerance.value))
                      => (/\ run.status = "error"
                          /\ run.error = "Tolerance value must be between 0 and 100.")
                /\ (run.tolerance.numeric /\ InRange(run.tolerance.value))
                      => (/\ run.error \notin ToleranceErrors
                          /\ Reached("ImageCompare")
                          /\ comparer.tolerance = run.tolerance.value)

C15_Witness ==
    /\ run.entry = "main" /\ BothImages /\ files[1].format = files[2].format
    /\ run.tolerance = [numeric |-> TRUE, value |-> 100]
    /\ run.status = "done" /\ comparer.tolerance = 100
    /\ report.status = "written"

C17_FormatMismatch ==
    (run.entry = "main" /\ BothImages /\ files[1].format # files[2].format) =>
        /\ run.status = "error"
        /\ run.error = "Image formats do not match"
        /\ ~Reached("ImageCompare")
        /\ ~Reached("compare_images")
        /\ comparer = NoComparer
        /\ result = NoResult /\ output = NoOutput /\ report = NoReport

C17_Witness ==
    /\ run.entry = "main" /\ BothImages
    /\ files[1].format = "JPEG" /\ files[2].format = "PNG"
    /\ files[1].size = files[2].size /\ files[1].mode = files[2].mode
    /\ ~InvalidTolerance(run.tolerance)
    /\ run.error = "Image formats do not match"
    /\ comparer = NoComparer

(* C18: no operation on a constructed comparer changes its loaded images   *)
(* or its tolerance (nor the files), and once compare_images has returned, *)
(* every later call of an operation, compare_images included, leaves the   *)
(* same result.                                                            *)
C18_NoMutation ==
    [][comparer.variant # "none" =>
          /\ comparer' = comparer
          /\ files' = files
          /\ Compared => result' = result]_vars

C18_Witness ==
    /\ Ok /\ comparer.variant = "direct" /\ comparer.img1.mode = "L"
    /\ output.status = "written" /\ report.status = "written"
    /\ comparer.img1 = files[1] /\ comparer.img2 = files[2]
    /\ result = CompareImages(comparer)
    /\ result.num > 0

(* C19: generate_report writes the report whether or not the directory of  *)
(* its output file exists, so also when save_difference_images was not     *)
(* called before it.                                                       *)
C19_ReportCreatesDirs ==
    report.status # "none" =>
        /\ report.status = "written"
        /\ report.num = result.num /\ report.total = result.total

\* Number of pixels of which some channel exceeds the comparer's tolerance.
PixelsOutsideTolerance ==
    SumSeq([r \in 1..Len(comparer.img1.px) |->
               IF AnyChannelExceeds(r, comparer.tolerance)
               THEN Areas(comparer.img1.size)[r] ELSE 0])

(* C20: compareImagesToleranceBased returns (similar, n, total) where n is *)
(* the number of differing pixels, total the number of pixels of one       *)
(* image, and similar is true exactly when n = 0.                          *)
C20_StandaloneTriple ==
    (Ok /\ comparer.variant = "standalone") =>
        /\ result.num = PixelsOutsideTolerance
        /\ result.total = comparer.img1.size[1] * comparer.img1.size[2]
        /\ result.similar <=> (result.num = 0)

(* C21: in the standalone script the samples kept in diff_img1.png and     *)
(* diff_img2.png are exactly the samples compareImagesToleranceBased       *)
(* counted as differing: a sample of the first (second) image is kept      *)
(* where the count's test |a - b| > tolerance_value holds and is 0         *)
(* elsewhere.                                                              *)
C21_SavedAreCounted ==
    (Ok /\ comparer.variant = "standalone" /\ output.status = "written") =>
        \A r \in 1..Len(comparer.img1.px) :
            \A c \in 1..Len(comparer.img1.px[r]) :
                /\ output.diff_img1[r][c] =
                      (IF result.mask.data[r][c] THEN comparer.img1.px[r][c] ELSE 0)
                /\ output.diff_img2[r][c] =
                      (IF result.mask.data[r][c] THEN comparer.img2.px[r][c] ELSE 0)

(* C22: for every pair of images that passes validate_images, RGBA pairs   *)
(* included, the mask of the direct engine's compare_images has one        *)
(* boolean per pixel, and save_difference_images applies it to the         *)
(* RGB-converted grids without error.                                      *)
C22_MaskShape ==
    (Ok /\ comparer.variant = "direct") =>
        /\ MaskIsPerPixel
        /\ MaskFits(result.mask, ArrayShape(ConvertRGB(comparer.img1)))
        /\ output.status \in {"none", "written"}

====
